---- MODULE Spec2Model ----
(***************************************************************************)
(* Model of bincom_test_solution.py: the BincomColorAnalyzer object (label *)
(* acquisition with fallback, the four statistics queries, persistence),   *)
(* the recursive linear search, and the top-level driver.                  *)
(*                                                                         *)
(* Python strings that the code inspects character by character (the HTML  *)
(* text, the regular expression's literals) are sequences of one-character *)
(* strings.  Labels captured by the regular expression are TLA+ strings;   *)
(* Chars gives their characters where the code compares them.              *)
(* Python floats are modelled by exact normalised fractions [num, den].    *)
(***************************************************************************)
EXTENDS Integers, Sequences, FiniteSets, TLC

VARIABLES attrs, colors, color_frequencies, ret, retrieval, html_content, db,
          name, pc, out, binary_number, fib_sequence,
          numbers, target, index, depth, inspected, sres

vars == <<attrs, colors, color_frequencies, ret, retrieval, html_content, db,
          name, pc, out, binary_number, fib_sequence,
          numbers, target, index, depth, inspected, sres>>

analyzerVars == <<attrs, colors, color_frequencies, ret, retrieval, html_content, db>>
scriptVars == <<name, pc, out, binary_number, fib_sequence>>
searchVars == <<numbers, target, index, depth, inspected, sres>>

(***************************************************************************)
(* Bounds of the model.                                                    *)
(***************************************************************************)
MaxCells == 2
MaxLen == 4
MaxNumbers == 3

(***************************************************************************)
(* Characters and str.upper().                                             *)
(***************************************************************************)
LowerLetters == <<"a","b","c","d","e","f","g","h","i","j","k","l","m",
                  "n","o","p","q","r","s","t","u","v","w","x","y","z">>

UpperLetters == <<"A","B","C","D","E","F","G","H","I","J","K","L","M",
                  "N","O","P","Q","R","S","T","U","V","W","X","Y","Z">>

\* str.upper() on the lower-case letters; every other character is kept.
UpperOf == [c \in {LowerLetters[i] : i \in 1..Len(LowerLetters)} |->
               UpperLetters[CHOOSE i \in 1..Len(LowerLetters) : LowerLetters[i] = c]]

upper_char(c) == IF c \in DOMAIN UpperOf THEN UpperOf[c] ELSE c

upper(s) == [i \in 1..Len(s) |-> upper_char(s[i])]

\* Code point of an upper-case letter, as str comparison uses it.
Ord(c) == 64 + (CHOOSE i \in 1..Len(UpperLetters) : UpperLetters[i] = c)

\* The characters of each label of the recognizer's alternation.
Chars(label) ==
    CASE label = "RED"    -> <<"R","E","D">>
      [] label = "GREEN"  -> <<"G","R","E","E","N">>
      [] label = "BLUE"   -> <<"B","L","U","E">>
      [] label = "YELLOW" -> <<"Y","E","L","L","O","W">>
      [] label = "ORANGE" -> <<"O","R","A","N","G","E">>
      [] label = "BLACK"  -> <<"B","L","A","C","K">>
      [] label = "WHITE"  -> <<"W","H","I","T","E">>
      [] label = "BROWN"  -> <<"B","R","O","W","N">>
      [] label = "PINK"   -> <<"P","I","N","K">>
      [] label = "PURPLE" -> <<"P","U","R","P","L","E">>
      [] label = "GRAY"   -> <<"G","R","A","Y">>

(***************************************************************************)
(* color_pattern and re.findall.                                           *)
(*   r'<td[^>]*>(RED|GREEN|...|GRAY)</td>'                                 *)
(***************************************************************************)
PatternOpen == <<"<","t","d">>

PatternClose == <<"<","/","t","d",">">>

ColorAlternatives == <<"RED","GREEN","BLUE","YELLOW","ORANGE","BLACK",
                       "WHITE","BROWN","PINK","PURPLE","GRAY">>

\* The literal lit occurs in text at position i (case-sensitive).
LiteralAt(lit, text, i) ==
    /\ i >= 1
    /\ i + Len(lit) - 1 <= Len(text)
    /\ \A k \in 1..Len(lit) : text[i + k - 1] = lit[k]

\* [^>]* followed by '>': the position of the first '>' at or after i, 0 if none.
RECURSIVE FirstGt(_, _)
FirstGt(text, i) ==
    IF i > Len(text) THEN 0
    ELSE IF text[i] = ">" THEN i
    ELSE FirstGt(text, i + 1)

\* One match attempt at position i: [ok, group, next] where group is the
\* captured alternative and next the position after the match.
MatchAt(open, close, text, i) ==
    LET g == IF LiteralAt(open, text, i) THEN FirstGt(text, i + Len(open)) ELSE 0
        fits(a) == /\ LiteralAt(Chars(ColorAlternatives[a]), text, g + 1)
                   /\ LiteralAt(close, text, g + 1 + Len(Chars(ColorAlternatives[a])))
        alts == {a \in 1..Len(ColorAlternatives) : fits(a)}
    IN  IF g = 0 \/ alts = {}
        THEN [ok |-> FALSE, group |-> "", next |-> i + 1]
        ELSE LET a == CHOOSE x \in alts : \A y \in alts : x <= y
             IN  [ok |-> TRUE, group |-> ColorAlternatives[a],
                  next |-> g + 1 + Len(Chars(ColorAlternatives[a])) + Len(close)]

\* re.findall: the captured groups of the non-overlapping matches, left to right.
RECURSIVE findall_from(_, _, _, _)
findall_from(open, close, text, i) ==
    IF i > Len(text) THEN <<>>
    ELSE LET m == MatchAt(open, close, text, i)
         IN  IF m.ok
             THEN <<m.group>> \o findall_from(open, close, text, m.next)
             ELSE findall_from(open, close, text, i + 1)

findall(open, close, text) == findall_from(open, close, text, 1)

(***************************************************************************)
(* Python values returned by the methods, and floats as exact fractions.   *)
(***************************************************************************)
PyNone == [t |-> "None", s |-> "", num |-> 0, den |-> 1]

PyStr(x) == [t |-> "str", s |-> x, num |-> 0, den |-> 1]

PyInt(n) == [t |-> "int", s |-> "", num |-> n, den |-> 1]

PyBool(b) == [t |-> "bool", s |-> "", num |-> IF b THEN 1 ELSE 0, den |-> 1]

RECURSIVE Gcd(_, _)
Gcd(a, b) == IF b = 0 THEN a ELSE Gcd(b, a % b)

Abs(x) == IF x < 0 THEN 0 - x ELSE x

\* The float num/den (den > 0), in lowest terms.
PyFloat(n, d) ==
    LET g == Gcd(Abs(n), d)
    IN  [t |-> "float", s |-> "", num |-> n \div g, den |-> d \div g]

FloatSub(a, b) == PyFloat(a.num * b.den - b.num * a.den, a.den * b.den)

FloatAdd(a, b) == PyFloat(a.num * b.den + b.num * a.den, a.den * b.den)

FloatMul(a, b) == PyFloat(a.num * b.num, a.den * b.den)

FloatDivInt(a, k) == PyFloat(a.num, a.den * k)

Returned(v) == [exc |-> "", val |-> v]

Raised(e) == [exc |-> e, val |-> PyNone]

(***************************************************************************)
(* collections.Counter, max(..., key=...), sorted().                        *)
(* A Counter is the sequence of its items [key, count] in insertion order, *)
(* which is the order dict iteration follows.                              *)
(***************************************************************************)
HasKey(items, k) == \E i \in 1..Len(items) : items[i].key = k

\* CounterAdd that leaves the count of a key already present as it is.
CounterAddNoIncrement(items, k) ==
    IF HasKey(items, k) THEN items
    ELSE Append(items, [key |-> k, count |-> 1])

CounterAdd(items, k) ==
    IF HasKey(items, k)
    THEN [i \in 1..Len(items) |->
             IF items[i].key = k
             THEN [key |-> k, count |-> items[i].count + 1]
             ELSE items[i]]
    ELSE Append(items, [key |-> k, count |-> 1])

RECURSIVE CounterFrom(_, _)
CounterFrom(items, seq) ==
    IF seq = <<>> THEN items
    ELSE CounterFrom(CounterAdd(items, Head(seq)), Tail(seq))

Counter(seq) == CounterFrom(<<>>, seq)

\* dict.get(k, 0)
CounterGet(items, k) ==
    IF HasKey(items, k)
    THEN items[CHOOSE i \in 1..Len(items) : items[i].key = k].count
    ELSE 0

\* MaxFrom that lets a later item of equal count replace the best so far.
RECURSIVE MaxFromLast(_, _, _)
MaxFromLast(items, i, best) ==
    IF i > Len(items) THEN best
    ELSE IF items[i].count >= best.count
         THEN MaxFromLast(items, i + 1, items[i])
         ELSE MaxFromLast(items, i + 1, best)

\* max(items, key=lambda x: x[1]): the first item with the largest count.
RECURSIVE MaxFrom(_, _, _)
MaxFrom(items, i, best) ==
    IF i > Len(items) THEN best
    ELSE IF items[i].count > best.count
         THEN MaxFrom(items, i + 1, items[i])
         ELSE MaxFrom(items, i + 1, best)

MaxByCount(items) == MaxFrom(items, 2, items[1])

\* str < str: lexicographic by code point, a proper prefix being smaller.
RECURSIVE CharsLess(_, _)
CharsLess(a, b) ==
    IF b = <<>> THEN FALSE
    ELSE IF a = <<>> THEN TRUE
    ELSE IF Ord(Head(a)) # Ord(Head(b)) THEN Ord(Head(a)) < Ord(Head(b))
    ELSE CharsLess(Tail(a), Tail(b))

StrLess(x, y) == CharsLess(Chars(x), Chars(y))

\* Stable insertion of x into the sorted sequence s: after every element <= x.
RECURSIVE InsertSorted(_, _)
InsertSorted(s, x) ==
    IF s = <<>> THEN <<x>>
    ELSE IF StrLess(x, Head(s)) THEN <<x>> \o s
    ELSE <<Head(s)>> \o InsertSorted(Tail(s), x)

RECURSIVE SortedFrom(_, _)
SortedFrom(acc, seq) ==
    IF seq = <<>> THEN acc
    ELSE SortedFrom(InsertSorted(acc, Head(seq)), Tail(seq))

sorted(seq) == SortedFrom(<<>>, seq)

(***************************************************************************)
(* BincomColorAnalyzer.  attrs is the set of attributes the instance has:  *)
(* the class defines a method named init, not __init__, so construction    *)
(* sets none of them.                                                      *)
(***************************************************************************)
FallbackOnEmpty == <<"RED", "GREEN", "BLUE", "RED", "GREEN", "BLUE", "RED",
                     "YELLOW", "BLUE", "RED", "GREEN", "RED", "BLUE", "GREEN">>

FallbackOnError == <<"RED", "GREEN", "BLUE", "RED", "GREEN", "BLUE", "RED",
                     "YELLOW", "BLUE", "RED", "GREEN", "RED", "BLUE", "GREEN">>

\* Lines 32-37: the labels found in the retrieved text, or the sample data.
ParsedColors(text) ==
    LET found == findall(PatternOpen, PatternClose, upper(text))
    IN  IF found = <<>> THEN FallbackOnEmpty ELSE found

\* FetchExcept that lets the exception reach the caller, no sample data set.
FetchExceptPropagates(a) ==
    [attrs |-> a, colors |-> <<>>, color_frequencies |-> <<>>,
     exc |-> "Exception", val |-> PyNone]

\* Lines 42-48: the except branch.
FetchExcept(a) ==
    [attrs |-> a \cup {"colors", "color_frequencies"},
     colors |-> FallbackOnError,
     color_frequencies |-> Counter(FallbackOnError),
     exc |-> "", val |-> PyBool(FALSE)]

\* Lines 26-40: the try branch, retrieval having returned text.
FetchTry(a, text) ==
    LET parsed == ParsedColors(text)
    IN  [attrs |-> a \cup {"colors", "color_frequencies"},
         colors |-> parsed,
         color_frequencies |-> Counter(parsed),
         exc |-> "", val |-> PyBool(TRUE)]

\* fetch_and_parse_html: response is [raises, text], what requests.get does.
fetch_and_parse_html(a, response) ==
    IF "url" \notin a \/ response.raises
    THEN FetchExcept(a)
    ELSE FetchTry(a, response.text)

get_mean_color(a, freqs) ==
    IF "color_frequencies" \notin a THEN Raised("AttributeError")
    ELSE IF freqs = <<>> THEN Returned(PyNone)
    ELSE Returned(PyStr(MaxByCount(freqs).key))

get_most_frequent_color(a, freqs) == get_mean_color(a, freqs)

\* get_median_color that takes index n // 2 whatever the parity of n.
get_median_color_upper_middle(a, cols) ==
    IF "colors" \notin a THEN Raised("AttributeError")
    ELSE IF cols = <<>> THEN Returned(PyNone)
    ELSE Returned(PyStr(sorted(cols)[(Len(cols) \div 2) + 1]))

get_median_color(a, cols) ==
    IF "colors" \notin a THEN Raised("AttributeError")
    ELSE IF cols = <<>> THEN Returned(PyNone)
    ELSE LET sorted_colors == sorted(cols)
             n == Len(sorted_colors)
         IN  IF n % 2 = 1
             THEN Returned(PyStr(sorted_colors[(n \div 2) + 1]))
             ELSE Returned(PyStr(sorted_colors[((n - 1) \div 2) + 1]))

RECURSIVE SumSquares(_, _, _)
SumSquares(items, i, mean_freq) ==
    IF i > Len(items) THEN PyFloat(0, 1)
    ELSE LET d == FloatSub(PyFloat(items[i].count, 1), mean_freq)
         IN  FloatAdd(FloatMul(d, d), SumSquares(items, i + 1, mean_freq))

\* get_color_variance that divides the sum of squares by n, not by k.
get_color_variance_over_n(a, cols, freqs) ==
    IF "colors" \notin a THEN Raised("AttributeError")
    ELSE IF cols = <<>> THEN Returned(PyInt(0))
    ELSE IF "color_frequencies" \notin a THEN Raised("AttributeError")
    ELSE IF Len(freqs) = 0 THEN Raised("ZeroDivisionError")
    ELSE Returned(FloatDivInt(SumSquares(freqs, 1, PyFloat(Len(cols), Len(freqs))),
                              Len(cols)))

get_color_variance(a, cols, freqs) ==
    IF "colors" \notin a THEN Raised("AttributeError")
    ELSE IF cols = <<>> THEN Returned(PyInt(0))
    ELSE IF "color_frequencies" \notin a THEN Raised("AttributeError")
    ELSE IF Len(freqs) = 0 THEN Raised("ZeroDivisionError")
    ELSE LET n == Len(cols)
             mean_freq == PyFloat(n, Len(freqs))
         IN  Returned(FloatDivInt(SumSquares(freqs, 1, mean_freq), Len(freqs)))

\* get_red_probability that looks the label up as 'Red'.
get_red_probability_mixed_case(a, cols, freqs) ==
    IF "colors" \notin a THEN Raised("AttributeError")
    ELSE IF cols = <<>> THEN Returned(PyInt(0))
    ELSE IF "color_frequencies" \notin a THEN Raised("AttributeError")
    ELSE Returned(PyFloat(CounterGet(freqs, "Red"), Len(cols)))

get_red_probability(a, cols, freqs) ==
    IF "colors" \notin a THEN Raised("AttributeError")
    ELSE IF cols = <<>> THEN Returned(PyInt(0))
    ELSE IF "color_frequencies" \notin a THEN Raised("AttributeError")
    ELSE Returned(PyFloat(CounterGet(freqs, "RED"), Len(cols)))

\* The rows of the table color_frequencies after the upserts of lines 125-131.
Upsert(table, items) ==
    LET keys == {items[i].key : i \in 1..Len(items)}
    IN  [k \in (DOMAIN table) \cup keys |->
            IF k \in keys THEN CounterGet(items, k) ELSE table[k]]

\* save_to_postgresql: [exc, val, db]; connects says whether psycopg2 succeeds.
save_to_postgresql(a, freqs, table, connects) ==
    IF "color_frequencies" \notin a
    THEN [exc |-> "AttributeError", val |-> PyNone, db |-> table]
    ELSE IF freqs = <<>>
    THEN [exc |-> "", val |-> PyBool(FALSE), db |-> table]
    ELSE IF ~connects
    THEN [exc |-> "", val |-> PyBool(FALSE), db |-> table]
    ELSE [exc |-> "", val |-> PyBool(TRUE), db |-> Upsert(table, freqs)]

(***************************************************************************)
(* What requests.get(self.url) can deliver: an exception, or a response    *)
(* whose text is a concatenation of at most MaxCells of these fragments.   *)
(***************************************************************************)
\* <td>RED</td>
CellLowerTagUpperLabel == <<"<","t","d",">","R","E","D","<","/","t","d",">">>

\* <td id=x>blue</td>
CellAllLower == <<"<","t","d"," ","i","d","=","x",">","b","l","u","e","<","/","t","d",">">>

\* <TD>Green</TD>
CellUpperTag == <<"<","T","D",">","G","r","e","e","n","<","/","T","D",">">>

\* <td>CYAN</td>
CellUnknownLabel == <<"<","t","d",">","C","Y","A","N","<","/","t","d",">">>

\* <p>RED</p>
ParagraphLabel == <<"<","p",">","R","E","D","<","/","p",">">>

Fragments == {CellLowerTagUpperLabel, CellAllLower, CellUpperTag,
              CellUnknownLabel, ParagraphLabel}

RECURSIVE Concatenations(_)
Concatenations(n) ==
    IF n = 0 THEN {<<>>}
    ELSE Concatenations(n - 1) \cup
         {d \o f : d \in Concatenations(n - 1), f \in Fragments}

Documents == Concatenations(MaxCells)

Responses == {[raises |-> TRUE, text |-> <<>>]} \cup
             {[raises |-> FALSE, text |-> d] : d \in Documents}

NoReturn == [op |-> "", exc |-> "", val |-> PyNone]

IdleScript ==
    /\ name = ""
    /\ pc = "idle"
    /\ out = <<>>
    /\ binary_number = <<>>
    /\ fib_sequence = <<>>

IdleSearch ==
    /\ numbers = <<>>
    /\ target = 0
    /\ index = 0
    /\ depth = 0
    /\ inspected = 0
    /\ sres = [done |-> FALSE, exc |-> "", val |-> 0]

\* analyzer = BincomColorAnalyzer(): object.__init__ runs, no attribute is set.
Init ==
    /\ attrs = {}
    /\ colors = <<>>
    /\ color_frequencies = <<>>
    /\ ret = NoReturn
    /\ retrieval = "none"
    /\ html_content = <<>>
    /\ db = <<>>
    /\ IdleScript
    /\ IdleSearch

(***************************************************************************)
(* The calls a user of the object can make.                                *)
(***************************************************************************)
\* retrieval and html_content describe the call in progress or just returned:
\* they are locals of fetch_and_parse_html, gone once another call is made.
EndOfFetch ==
    /\ retrieval' = "none"
    /\ html_content' = <<>>

\* analyzer.init(), lines 16-19.
CallInit ==
    /\ attrs' = attrs \cup {"url", "colors", "color_frequencies"}
    /\ colors' = <<>>
    /\ color_frequencies' = <<>>
    /\ ret' = [op |-> "init", exc |-> "", val |-> PyNone]
    /\ EndOfFetch
    /\ UNCHANGED <<db, scriptVars, searchVars>>

Fetch ==
    \E response \in Responses :
        LET r == fetch_and_parse_html(attrs, response)
            got == "url" \in attrs /\ ~response.raises
        IN  /\ attrs' = r.attrs
            /\ colors' = r.colors
            /\ color_frequencies' = r.color_frequencies
            /\ ret' = [op |-> "fetch_and_parse_html", exc |-> r.exc, val |-> r.val]
            /\ retrieval' = IF got THEN "ok" ELSE "raised"
            /\ html_content' = IF got THEN response.text ELSE <<>>
            /\ UNCHANGED <<db, scriptVars, searchVars>>

Query(op, r) ==
    /\ ret' = [op |-> op, exc |-> r.exc, val |-> r.val]
    /\ EndOfFetch
    /\ UNCHANGED <<attrs, colors, color_frequencies, db, scriptVars, searchVars>>

GetMeanColor == Query("get_mean_color", get_mean_color(attrs, color_frequencies))

GetMostFrequentColor ==
    Query("get_most_frequent_color", get_most_frequent_color(attrs, color_frequencies))

GetMedianColor == Query("get_median_color", get_median_color(attrs, colors))

GetColorVariance ==
    Query("get_color_variance", get_color_variance(attrs, colors, color_frequencies))

GetRedProbability ==
    Query("get_red_probability", get_red_probability(attrs, colors, color_frequencies))

SaveToPostgresql ==
    \E connects \in BOOLEAN :
        LET r == save_to_postgresql(attrs, color_frequencies, db, connects)
        IN  /\ ret' = [op |-> "save_to_postgresql", exc |-> r.exc, val |-> r.val]
            /\ db' = r.db
            /\ EndOfFetch
            /\ UNCHANGED <<attrs, colors, color_frequencies, scriptVars, searchVars>>

Next ==
    \/ CallInit
    \/ Fetch
    \/ GetMeanColor
    \/ GetMostFrequentColor
    \/ GetMedianColor
    \/ GetColorVariance
    \/ GetRedProbability
    \/ SaveToPostgresql

Spec == Init /\ [][Next]_vars

(***************************************************************************)
(* The statistics engine on its own: every Label Sequence of at most       *)
(* MaxLen labels over StatLabels, and the sample sequence, each with the   *)
(* Counter the code derives from it, under the four queries.               *)
(***************************************************************************)
StatLabels == {"RED", "GREEN", "BLUE", "BLACK"}

RECURSIVE SeqsUpTo(_, _)
SeqsUpTo(S, n) ==
    IF n = 0 THEN {<<>>}
    ELSE SeqsUpTo(S, n - 1) \cup
         {Append(q, x) : q \in SeqsUpTo(S, n - 1), x \in S}

InitStats ==
    /\ attrs = {"url", "colors", "color_frequencies"}
    /\ colors \in SeqsUpTo(StatLabels, MaxLen) \cup {FallbackOnEmpty}
    /\ color_frequencies = Counter(colors)
    /\ ret = NoReturn
    /\ retrieval = "none"
    /\ html_content = <<>>
    /\ db = <<>>
    /\ IdleScript
    /\ IdleSearch

NextStats ==
    \/ GetMeanColor
    \/ GetMostFrequentColor
    \/ GetMedianColor
    \/ GetColorVariance
    \/ GetRedProbability

SpecStats == InitStats /\ [][NextStats]_vars

(***************************************************************************)
(* recursive_search, one frame at a time.  depth is the number of frames   *)
(* on the interpreter's stack while the current frame runs; CPython raises *)
(* RecursionError on a call that would exceed its recursion limit.         *)
(***************************************************************************)
RecursionLimit == 1000

\* The body of one frame, lines 144-148: what it does with numbers[index].
SearchFrame(nums, tgt, i, d) ==
    IF i >= Len(nums) THEN [kind |-> "return", val |-> 0 - 1]
    ELSE IF nums[i + 1] = tgt THEN [kind |-> "return", val |-> i]
    ELSE IF d + 1 > RecursionLimit THEN [kind |-> "raise", val |-> 0]
    ELSE [kind |-> "call", val |-> i + 1]

\* The whole call, for callers that use its result in one step.
RECURSIVE recursive_search(_, _, _, _)
recursive_search(nums, tgt, i, d) ==
    LET f == SearchFrame(nums, tgt, i, d)
    IN  IF f.kind = "call" THEN recursive_search(nums, tgt, f.val, d + 1)
        ELSE IF f.kind = "raise" THEN [exc |-> "RecursionError", val |-> 0]
        ELSE [exc |-> "", val |-> f.val]

NumberValues == {1, 2}

\* Lists of RecursionLimit - 2 and RecursionLimit - 1 zeros.
LongInputs == {[i \in 1..n |-> 0] : n \in {RecursionLimit - 2, RecursionLimit - 1}}

\* recursive_search(numbers, target) called from module level (depth 2) or
\* from a function called there (depth 3); index defaults to 0.
InitSearch ==
    /\ numbers \in SeqsUpTo(NumberValues, MaxNumbers) \cup LongInputs
    /\ target \in NumberValues \cup {0, 3}
    /\ index = 0
    /\ depth \in {2, 3}
    /\ inspected = 0
    /\ sres = [done |-> FALSE, exc |-> "", val |-> 0]
    /\ attrs = {}
    /\ colors = <<>>
    /\ color_frequencies = <<>>
    /\ ret = NoReturn
    /\ retrieval = "none"
    /\ html_content = <<>>
    /\ db = <<>>
    /\ IdleScript

\* Line 144-145: index >= len(numbers).
SearchNotFound ==
    /\ ~sres.done
    /\ index >= Len(numbers)
    /\ SearchFrame(numbers, target, index, depth).kind = "return"
    /\ sres' = [done |-> TRUE, exc |-> "", val |-> SearchFrame(numbers, target, index, depth).val]
    /\ UNCHANGED <<numbers, target, index, depth, inspected, analyzerVars, scriptVars>>

\* Line 146-147: numbers[index] == target.
SearchFound ==
    /\ ~sres.done
    /\ index < Len(numbers)
    /\ SearchFrame(numbers, target, index, depth).kind = "return"
    /\ inspected' = inspected + 1
    /\ sres' = [done |-> TRUE, exc |-> "", val |-> SearchFrame(numbers, target, index, depth).val]
    /\ UNCHANGED <<numbers, target, index, depth, analyzerVars, scriptVars>>

\* Line 148: the recursive call with index + 1.
SearchRecurse ==
    /\ ~sres.done
    /\ SearchFrame(numbers, target, index, depth).kind = "call"
    /\ inspected' = inspected + 1
    /\ index' = SearchFrame(numbers, target, index, depth).val
    /\ depth' = depth + 1
    /\ UNCHANGED <<numbers, target, sres, analyzerVars, scriptVars>>

\* Line 148: the recursive call exceeds the recursion limit.
SearchRecursionError ==
    /\ ~sres.done
    /\ SearchFrame(numbers, target, index, depth).kind = "raise"
    /\ inspected' = inspected + 1
    /\ sres' = [done |-> TRUE, exc |-> "RecursionError", val |-> 0]
    /\ UNCHANGED <<numbers, target, index, depth, analyzerVars, scriptVars>>

NextSearch ==
    \/ SearchNotFound
    \/ SearchFound
    \/ SearchRecurse
    \/ SearchRecursionError

SpecSearch == InitSearch /\ [][NextSearch]_vars

(***************************************************************************)
(* Python's unbounded ints where they outgrow 32 bits: little-endian       *)
(* sequences of base-10000 digits, <<>> being 0.                           *)
(***************************************************************************)
Big(n) == IF n = 0 THEN <<>> ELSE <<n>>

RECURSIVE BigAddCarry(_, _, _)
BigAddCarry(a, b, c) ==
    IF a = <<>> /\ b = <<>>
    THEN Big(c)
    ELSE LET x == (IF a = <<>> THEN 0 ELSE Head(a)) + (IF b = <<>> THEN 0 ELSE Head(b)) + c
         IN  <<x % 10000>> \o BigAddCarry(IF a = <<>> THEN a ELSE Tail(a),
                                         IF b = <<>> THEN b ELSE Tail(b),
                                         x \div 10000)

BigAdd(a, b) == BigAddCarry(a, b, 0)

\* sum(seq): the left fold from 0.  Len(acc) < 0 never holds; it makes TLC
\* evaluate the running total at each element instead of nesting the additions.
RECURSIVE BigSumFrom(_, _)
BigSumFrom(seq, acc) ==
    IF seq = <<>> \/ Len(acc) < 0 THEN acc
    ELSE BigSumFrom(Tail(seq), BigAdd(acc, Head(seq)))

BigSum(seq) == BigSumFrom(seq, Big(0))

\* int(binary_number, 2)
RECURSIVE IntBase2(_, _)
IntBase2(digits, acc) ==
    IF digits = <<>> THEN acc
    ELSE IntBase2(Tail(digits), 2 * acc + (IF Head(digits) = "1" THEN 1 ELSE 0))

(***************************************************************************)
(* The script: the module body ends with the guard of line 214, and main   *)
(* (lines 163-212) is a sequence of steps.  name is the module's __name__: *)
(* "__main__" when the file is run as a program, the module's name when it *)
(* is imported.  out is the sequence of report lines printed so far.       *)
(***************************************************************************)
GuardLiteral == "__main__ "

Line(tag) == [line |-> tag, val |-> PyNone, table |-> <<>>, big |-> <<>>]

LineVal(tag, v) == [line |-> tag, val |-> v, table |-> <<>>, big |-> <<>>]

SearchNumbers == <<1, 5, 8, 12, 15, 20, 25>>

InitScript ==
    /\ name \in {"__main__", "bincom_test_solution"}
    /\ pc = "module"
    /\ out = <<>>
    /\ binary_number = <<>>
    /\ fib_sequence = <<>>
    /\ attrs = {}
    /\ colors = <<>>
    /\ color_frequencies = <<>>
    /\ ret = NoReturn
    /\ retrieval = "none"
    /\ html_content = <<>>
    /\ db = <<>>
    /\ IdleSearch

\* Lines 214-215: if __name__ == "__main__ ": main()
ModuleGuard ==
    /\ pc = "module"
    /\ pc' = IF name = GuardLiteral THEN "main" ELSE "end"
    /\ UNCHANGED <<name, out, binary_number, fib_sequence, analyzerVars, searchVars>>

\* The interpreter leaves the program once the module body (and main, had
\* the guard called it) has run.
ProgramExit ==
    /\ name = "__main__"
    /\ pc \in {"end", "returned"}
    /\ pc' = "exit"
    /\ UNCHANGED <<name, out, binary_number, fib_sequence, analyzerVars, searchVars>>

\* A program that imported the module calls main() itself.
ImporterCallsMain ==
    /\ name # "__main__"
    /\ pc = "end"
    /\ pc' = "main"
    /\ UNCHANGED <<name, out, binary_number, fib_sequence, analyzerVars, searchVars>>

\* One step of main: from pc `at` to `to`, printing `lines`.
MainStep(at, to, lines) ==
    /\ pc = at
    /\ pc' = to
    /\ out' = out \o lines

\* One print of a query's result; an exception raised by the query ends main.
MainReport(at, to, tag, op, r) ==
    /\ pc = at
    /\ pc' = IF r.exc = "" THEN to ELSE "crashed"
    /\ out' = IF r.exc = "" THEN Append(out, LineVal(tag, r.val)) ELSE out
    /\ ret' = [op |-> op, exc |-> r.exc, val |-> r.val]
    /\ EndOfFetch
    /\ UNCHANGED <<name, binary_number, fib_sequence, attrs, colors, color_frequencies,
                   db, searchVars>>

\* Lines 165-169: the banner; analyzer = BincomColorAnalyzer().
MainHeader ==
    /\ MainStep("main", "fetch", <<Line("banner")>>)
    /\ attrs' = {}
    /\ colors' = <<>>
    /\ color_frequencies' = <<>>
    /\ UNCHANGED <<name, binary_number, fib_sequence, ret, retrieval, html_content,
                   db, searchVars>>

\* Lines 172-173: analyzer.fetch_and_parse_html(); its except branch prints.
MainFetch ==
    \E response \in Responses :
        LET r == fetch_and_parse_html(attrs, response)
            got == "url" \in attrs /\ ~response.raises
        IN  /\ MainStep("fetch", "count",
                        IF got THEN <<Line("fetching")>>
                        ELSE <<Line("fetching"), Line("fetch_error")>>)
            /\ attrs' = r.attrs
            /\ colors' = r.colors
            /\ color_frequencies' = r.color_frequencies
            /\ ret' = [op |-> "fetch_and_parse_html", exc |-> r.exc, val |-> r.val]
            /\ retrieval' = IF got THEN "ok" ELSE "raised"
            /\ html_content' = IF got THEN response.text ELSE <<>>
            /\ UNCHANGED <<name, binary_number, fib_sequence, db, searchVars>>

\* Lines 175-177: entry count and frequency table.
MainReportData ==
    /\ MainStep("count", "mean",
                <<LineVal("entry_count", PyInt(Len(colors))),
                  [line |-> "frequencies", val |-> PyNone,
                   table |-> color_frequencies, big |-> <<>>]>>)
    /\ UNCHANGED <<name, binary_number, fib_sequence, analyzerVars, searchVars>>

\* Line 181.
MainReportMean ==
    MainReport("mean", "most_frequent", "mean", "get_mean_color",
               get_mean_color(attrs, color_frequencies))

\* Line 182.
MainReportMostFrequent ==
    MainReport("most_frequent", "median", "most_frequent", "get_most_frequent_color",
               get_most_frequent_color(attrs, color_frequencies))

\* Line 183.
MainReportMedian ==
    MainReport("median", "variance", "median", "get_median_color",
               get_median_color(attrs, colors))

\* Line 184, printed with format .2f.
MainReportVariance ==
    MainReport("variance", "probability", "variance", "get_color_variance",
               get_color_variance(attrs, colors, color_frequencies))

\* Lines 185-186, printed with format .2%.
MainReportProbability ==
    MainReport("probability", "database", "red_probability", "get_red_probability",
               get_red_probability(attrs, colors, color_frequencies))

\* Lines 189-194: save_to_postgresql is commented out; only the notices print.
MainDatabase ==
    /\ MainStep("database", "search", <<Line("database_notice")>>)
    /\ UNCHANGED <<name, binary_number, fib_sequence, analyzerVars, searchVars>>

\* Lines 197-200: the frame of recursive_search runs under module and main.
MainSearch ==
    LET r == recursive_search(SearchNumbers, 15, 0, 3)
    IN  /\ pc = "search"
        /\ pc' = IF r.exc = "" THEN "binary" ELSE "crashed"
        /\ out' = IF r.exc = "" THEN Append(out, LineVal("recursive_search", PyInt(r.val)))
                  ELSE out
        /\ UNCHANGED <<name, binary_number, fib_sequence, analyzerVars, searchVars>>

\* Line 152: one str(random.randint(0, 1)) of the four.
MainBinaryDigit ==
    /\ pc = "binary"
    /\ Len(binary_number) < 4
    /\ \E bit \in {"0", "1"} : binary_number' = Append(binary_number, bit)
    /\ UNCHANGED <<name, pc, out, fib_sequence, analyzerVars, searchVars>>

\* Lines 153-154 and 204: int(binary_number, 2) and the print.
MainBinaryConvert ==
    /\ Len(binary_number) = 4
    /\ MainStep("binary", "fibonacci",
                <<[line |-> "binary_to_decimal", val |-> PyInt(IntBase2(binary_number, 0)),
                   table |-> binary_number, big |-> <<>>]>>)
    /\ fib_sequence' = <<Big(0), Big(1)>>
    /\ UNCHANGED <<name, binary_number, analyzerVars, searchVars>>

\* Lines 159-160: one iteration of for i in range(2, 50).
MainFibLoop ==
    /\ pc = "fibonacci"
    /\ Len(fib_sequence) < 50
    /\ fib_sequence' = Append(fib_sequence,
                              BigAdd(fib_sequence[Len(fib_sequence)],
                                     fib_sequence[Len(fib_sequence) - 1]))
    /\ UNCHANGED <<name, pc, out, binary_number, analyzerVars, searchVars>>

\* Lines 161 and 208-212: the sum, the closing rule and the completion line.
MainFibSumAndFooter ==
    /\ Len(fib_sequence) >= 50
    /\ MainStep("fibonacci", "returned",
                <<[line |-> "fibonacci_sum", val |-> PyNone, table |-> <<>>,
                   big |-> BigSum(fib_sequence)],
                  Line("completed")>>)
    /\ UNCHANGED <<name, binary_number, fib_sequence, analyzerVars, searchVars>>

NextScript ==
    \/ ModuleGuard
    \/ ProgramExit
    \/ ImporterCallsMain
    \/ MainHeader
    \/ MainFetch
    \/ MainReportData
    \/ MainReportMean
    \/ MainReportMostFrequent
    \/ MainReportMedian
    \/ MainReportVariance
    \/ MainReportProbability
    \/ MainDatabase
    \/ MainSearch
    \/ MainBinaryDigit
    \/ MainBinaryConvert
    \/ MainFibLoop
    \/ MainFibSumAndFooter

SpecScript == InitScript /\ [][NextScript]_vars

(***************************************************************************)
(* Vocabulary of the properties, defined from the Label Sequence itself.   *)
(***************************************************************************)
LabelsOf(seq) == {seq[i] : i \in 1..Len(seq)}

CountOf(seq, l) == Cardinality({i \in 1..Len(seq) : seq[i] = l})

FirstIndexOf(seq, l) == CHOOSE i \in 1..Len(seq) :
                            seq[i] = l /\ \A j \in 1..(i - 1) : seq[j] # l

\* The number of elements of seq that are labels of S.
RECURSIVE SumCounts(_, _)
SumCounts(S, seq) ==
    IF S = {} THEN 0
    ELSE LET l == CHOOSE x \in S : TRUE
         IN  CountOf(seq, l) + SumCounts(S \ {l}, seq)

RECURSIVE TotalCount(_)
TotalCount(items) ==
    IF items = <<>> THEN 0 ELSE Head(items).count + TotalCount(Tail(items))

\* items is the count table of seq.
IsCountTable(items, seq) ==
    /\ \A i, j \in 1..Len(items) : items[i].key = items[j].key => i = j
    /\ {items[i].key : i \in 1..Len(items)} = LabelsOf(seq)
    /\ \A i \in 1..Len(items) : items[i].count = CountOf(seq, items[i].key)
    /\ TotalCount(items) = Len(seq)

FourteenLabels == <<"RED", "GREEN", "BLUE", "RED", "GREEN", "BLUE", "RED", "YELLOW",
                    "BLUE", "RED", "GREEN", "RED", "BLUE", "GREEN">>

\* The labels in dictionary order.
Alphabetical == <<"BLACK", "BLUE", "BROWN", "GRAY", "GREEN", "ORANGE",
                  "PINK", "PURPLE", "RED", "WHITE", "YELLOW">>

Rank(l) == CHOOSE i \in 1..Len(Alphabetical) : Alphabetical[i] = l

\* The table cells of text whose content is a recognized label, tags and
\* labels in any letter case: the labels, upper-cased, in document order.
CellLabels(text) == findall(upper(PatternOpen), upper(PatternClose), upper(text))

\* (k * count(l) - n)^2 for the k distinct labels and n elements of seq.
ScaledSquare(seq, l) ==
    (Cardinality(LabelsOf(seq)) * CountOf(seq, l) - Len(seq))
    * (Cardinality(LabelsOf(seq)) * CountOf(seq, l) - Len(seq))

RECURSIVE SumScaledSquares(_, _)
SumScaledSquares(S, seq) ==
    IF S = {} THEN 0
    ELSE LET l == CHOOSE x \in S : TRUE
         IN  ScaledSquare(seq, l) + SumScaledSquares(S \ {l}, seq)

\* The report lines of main in the order of the code, and what a run has
\* printed so far (the error notice of a failed fetch left aside).
ReportOrder == <<"banner", "fetching", "entry_count", "frequencies", "mean",
                 "most_frequent", "median", "variance", "red_probability",
                 "database_notice", "recursive_search", "binary_to_decimal",
                 "fibonacci_sum", "completed">>

Printed == SelectSeq([i \in 1..Len(out) |-> out[i].line], LAMBDA t : t # "fetch_error")

StatQueries == {"get_mean_color", "get_most_frequent_color", "get_median_color",
                "get_color_variance", "get_red_probability"}

(***************************************************************************)
(* C1.  fetch_and_parse_html never raises to its caller and always leaves  *)
(* a non-empty Label Sequence; when retrieval raised, or succeeded and the *)
(* recognizer found no label, the sequence is the fourteen-label sample    *)
(* and the Frequency Table is its count table.                             *)
(***************************************************************************)
C1_FetchNeverFailsAndFallsBack ==
    ret.op = "fetch_and_parse_html" =>
        /\ ret.exc = ""
        /\ colors # <<>>
        /\ (\/ retrieval = "raised"
            \/ /\ retrieval = "ok"
               /\ findall(PatternOpen, PatternClose, upper(html_content)) = <<>>)
           => /\ colors = FourteenLabels
              /\ IsCountTable(color_frequencies, FourteenLabels)

\* A retrieval that succeeded with a text in which nothing is recognized.
C1_Witness ==
    /\ ret.op = "fetch_and_parse_html"
    /\ retrieval = "ok"
    /\ html_content = CellUnknownLabel
    /\ ret.val = PyBool(TRUE)
    /\ colors = FourteenLabels

(***************************************************************************)
(* C2.  When retrieval succeeds and the document has at least one table    *)
(* cell, in any letter case, holding a recognized label, the Label         *)
(* Sequence is exactly those labels, upper-cased, in document order, and   *)
(* not the fallback sequence.                                              *)
(***************************************************************************)
C2_RecognizedCellsBecomeTheSequence ==
    (/\ ret.op = "fetch_and_parse_html"
     /\ retrieval = "ok"
     /\ CellLabels(html_content) # <<>>)
    => colors = CellLabels(html_content)

(***************************************************************************)
(* C3.  Once fetch_and_parse_html has returned, and after any later calls, *)
(* the Frequency Table is the exact count table of the Label Sequence:     *)
(* its keys are the distinct labels, each value the label's number of      *)
(* occurrences, the values summing to the sequence's length.               *)
(***************************************************************************)
C3_TableIsCountOfSequence ==
    {"colors", "color_frequencies"} \subseteq attrs
        => IsCountTable(color_frequencies, colors)

\* A fetch, then a successful save of the fourteen labels' table.
C3_Witness ==
    /\ ret.op = "save_to_postgresql"
    /\ ret.val = PyBool(TRUE)
    /\ Len(colors) = 14
    /\ DOMAIN db = {"RED", "GREEN", "BLUE", "YELLOW"}

(***************************************************************************)
(* C4.  On an analyzer whose Label Sequence is empty, in particular a      *)
(* newly constructed one, the queries return without raising: None for     *)
(* mean and median, 0 for variance and probability of RED.                 *)
(***************************************************************************)
C4_EmptySequenceQueriesAnswer ==
    (colors = <<>> /\ ret.op \in StatQueries) =>
        /\ ret.exc = ""
        /\ ret.op \in {"get_mean_color", "get_most_frequent_color", "get_median_color"}
              => ret.val = PyNone
        /\ ret.op \in {"get_color_variance", "get_red_probability"}
              => ret.val.t \in {"int", "float"} /\ ret.val.num = 0

(***************************************************************************)
(* C5.  For a non-empty Label Sequence of length n, get_median_color       *)
(* returns the element at index n // 2 (n odd) or (n - 1) // 2 (n even)    *)
(* of the sequence in dictionary order, a member of the sequence; the      *)
(* call leaves self.colors as it was.                                      *)
(***************************************************************************)
\* The state part of C5: what get_median_color has returned.
C5_MedianState ==
    (ret.op = "get_median_color" /\ colors # <<>>) =>
        /\ ret.exc = ""
        /\ ret.val.t = "str"
        /\ ret.val.s \in LabelsOf(colors)
        /\ LET n == Len(colors)
               pos == IF n % 2 = 1 THEN n \div 2 ELSE (n - 1) \div 2
               below == Cardinality({i \in 1..n : Rank(colors[i]) < Rank(ret.val.s)})
               upto == Cardinality({i \in 1..n : Rank(colors[i]) <= Rank(ret.val.s)})
           IN  below <= pos /\ pos < upto

\* C5: the returned label is the lower middle element in dictionary order in
\* every state after get_median_color, and no call of it changes self.colors.
C5_MedianIsLowerMiddle ==
    []C5_MedianState /\ [][GetMedianColor => colors' = colors]_vars

\* Even length, the two middle elements differ: BLACK, BLUE | GREEN, RED.
C5_Witness ==
    /\ ret.op = "get_median_color"
    /\ colors = <<"RED", "BLUE", "BLACK", "GREEN">>
    /\ ret.val = PyStr("BLUE")

(***************************************************************************)
(* C6.  For a non-empty Label Sequence, get_mean_color and                 *)
(* get_most_frequent_color return a label whose count is at least every    *)
(* other label's; among the labels of highest count it is the one whose    *)
(* first occurrence in the sequence is earliest.                           *)
(***************************************************************************)
C6_ModeIsFirstMostFrequent ==
    (ret.op \in {"get_mean_color", "get_most_frequent_color"} /\ colors # <<>>) =>
        /\ ret.exc = ""
        /\ ret.val.t = "str"
        /\ ret.val.s \in LabelsOf(colors)
        /\ \A l \in LabelsOf(colors) :
              /\ CountOf(colors, l) <= CountOf(colors, ret.val.s)
              /\ CountOf(colors, l) = CountOf(colors, ret.val.s)
                    => FirstIndexOf(colors, ret.val.s) <= FirstIndexOf(colors, l)

\* A tie of two labels, the later one first in dictionary order.
C6_Witness ==
    /\ ret.op = "get_most_frequent_color"
    /\ colors = <<"RED", "BLUE", "BLUE", "RED">>
    /\ ret.val = PyStr("RED")

(***************************************************************************)
(* C7.  For a non-empty Label Sequence of n labels, k of them distinct,    *)
(* get_color_variance returns the population variance of the per-label    *)
(* counts: k^3 * variance = sum over labels of (k * count - n)^2.  It is   *)
(* 0 when all distinct labels have the same count, and 9/4 for the         *)
(* fourteen-label fallback sequence.                                       *)
(***************************************************************************)
C7_VarianceOfCounts ==
    (ret.op = "get_color_variance" /\ colors # <<>>) =>
        LET k == Cardinality(LabelsOf(colors))
        IN  /\ ret.exc = ""
            /\ ret.val.t = "float"
            /\ ret.val.den > 0
            /\ k * k * k * ret.val.num
                 = ret.val.den * SumScaledSquares(LabelsOf(colors), colors)
            /\ (\A a, b \in LabelsOf(colors) : CountOf(colors, a) = CountOf(colors, b))
                  => ret.val.num = 0
            /\ colors = FourteenLabels => ret.val.num = 9 /\ ret.val.den = 4

C7_Witness ==
    /\ ret.op = "get_color_variance"
    /\ colors = FourteenLabels
    /\ ret.val = PyFloat(9, 4)

(***************************************************************************)
(* C8.  For a Label Sequence of length n, get_red_probability returns      *)
(* count(RED) / n when n > 0 and 0 when n = 0 or RED never appears,        *)
(* without dividing by zero; the result lies in [0, 1], and for n > 0      *)
(* count(RED) plus the counts of all other labels is n.                    *)
(***************************************************************************)
C8_RedProbability ==
    ret.op = "get_red_probability" =>
        LET n == Len(colors)
            red == CountOf(colors, "RED")
        IN  /\ ret.exc = ""
            /\ ret.val.den > 0
            /\ 0 <= ret.val.num /\ ret.val.num <= ret.val.den
            /\ (n = 0 \/ red = 0) => ret.val.num = 0
            /\ n > 0 => /\ ret.val.num * n = red * ret.val.den
                        /\ red + SumCounts(LabelsOf(colors) \ {"RED"}, colors) = n

C8_Witness ==
    /\ ret.op = "get_red_probability"
    /\ colors = <<"RED", "BLUE", "RED">>
    /\ ret.val = PyFloat(2, 3)

(***************************************************************************)
(* C9.  For every finite numeric sequence and every target,                *)
(* recursive_search terminates and returns the smallest index holding the  *)
(* target, or -1 when the target does not occur; it inspects the elements  *)
(* left to right and none past the first match.                            *)
(***************************************************************************)
C9_SearchReturnsFirstIndex ==
    sres.done =>
        /\ sres.exc = ""
        /\ IF \E i \in 1..Len(numbers) : numbers[i] = target
           THEN /\ sres.val = FirstIndexOf(numbers, target) - 1
                /\ inspected = FirstIndexOf(numbers, target)
           ELSE /\ sres.val = 0 - 1
                /\ inspected = Len(numbers)

(***************************************************************************)
(* C10.  Running the script as a program invokes main, which reports in a  *)
(* fixed order: acquisition, entry count, frequency table, mode,           *)
(* most-frequent, median, variance, probability of RED, then the three     *)
(* bonus results; the run reaches the final completion line.               *)
(***************************************************************************)
C10_ProgramRunReportsInOrder ==
    /\ Len(Printed) <= Len(ReportOrder)
    /\ \A i \in 1..Len(Printed) : Printed[i] = ReportOrder[i]
    /\ (name = "__main__" /\ pc = "exit") => Printed = ReportOrder

====
